---------------------------- MODULE Spec2Model ----------------------------
(***************************************************************************)
(* fbinfogrid: the page rotation loop of main(), prepareCell,               *)
(* startOrExecute with its per-cell goroutine, the draw* functions and      *)
(* render(), as a state machine.                                            *)
(*                                                                          *)
(* Processes are the controller (main) and one goroutine per recurring      *)
(* cell.  A goroutine is named by its cell, <<page number, cell number>>,   *)
(* both counted from 1; main is <<0, 0>>.                                   *)
(***************************************************************************)
EXTENDS Integers, Sequences, FiniteSets, TLC

(***************************************************************************)
(* Bounds of the model.                                                     *)
(***************************************************************************)
MaxPages   == 2    \* pages in a configuration
MaxCells   == 2    \* cells on a page
MaxSources == 3    \* entries of a carousel's Sources
MaxCount   == 5    \* a carousel's render counter stops counting here
MaxRes     == 7    \* fb.Xres and fb.Yres, in pixels
MaxGrid    == 3    \* rows and columns of a page, position and span of a cell

VARIABLES
    Pages,          \* ConfigT.Pages, as loadConfig returned it
    httpFlag,       \* *httpFlag != 0, i.e. fbcopy != nil
    currentPageIx,  \* ConfigT.currentPageIx
    cellIx,         \* position of main in "for _, cell := range page.Cells"; 0 while blanking
    stopIx,         \* position of main in "for _, s := range stoppers"
    stoppers,       \* main's stoppers: each channel named by the goroutine that reads it
    wg,             \* the counter of main's sync.WaitGroup
    updateMu,       \* holder of main's updateMu, or Nobody
    pc,             \* where each process is
    ticker,         \* per cell: its time.Ticker: "none", its channel "empty" or "full",
                    \* or "orphan" once the goroutine that read the channel has returned
    fn,             \* CellT.fn, "" until prepareCell binds it
    currentSrcIx,   \* CellT.currentSrcIx
    fatal,          \* "" while the process lives, else why it died
    fb,             \* the framebuffer: what each cell rectangle of the grid shows
    fbcopy,         \* the image served over HTTP, rectangle by rectangle
    fbcopyMu,       \* the sync.RWMutex of fbcopy: the writer that holds it, the readers inside
    \* History of the current iteration of main's loop, per cell; cleared when the
    \* next iteration begins and when the cell is prepared.
    renders,        \* invocations of cell.fn
    opened,         \* index of the carousel source last opened, -1 if none
    lastFn,         \* the latest cell.fn invocation: "none", "running", or how it ended
    lastIo,         \* the err of that invocation's I/O, "ok" for nil, "none" before it
    \* The geometry of one cell, followed from the configuration to prepareCell.
    layout,         \* fb.Xres, fb.Yres, the page's Rows and Cols, the cell's Row, Col, Rowspan, Colspan
    geometry        \* page.cellWidth, page.cellHeight, the cell's spans, positionRect and picture

vars == <<Pages, httpFlag, currentPageIx, cellIx, stopIx, stoppers, wg, updateMu,
          pc, ticker, fn, currentSrcIx, fatal, fb, fbcopy, fbcopyMu,
          renders, opened, lastFn, lastIo, layout, geometry>>

Main    == <<0, 0>>
Nobody  == <<-1, -1>>
TaskIds == (1..MaxPages) \X (1..MaxCells)
Procs   == {Main} \cup TaskIds
\* the HTTP requests that can be inside fbcopyHandler at the same time
Clients == {"c1", "c2"}

(***************************************************************************)
(* Pixels.  The surfaces are divided into the rectangles of the grid, one   *)
(* per cell position of a page; cells are taken not to overlap.  What a     *)
(* rectangle shows is named by its kind and, for a carousel, the source.    *)
(***************************************************************************)
Rects == 1..MaxCells
Pixels(kind, ix) == [kind |-> kind, ix |-> ix]
Black   == Pixels("black", -1)       \* main's blanker
Device  == Pixels("device", -1)      \* what the device showed when it was opened
Zeroed  == Pixels("zeroed", -1)      \* image.NewNRGBA
NoImage == Pixels("nil", -1)         \* fbcopy == nil


(***************************************************************************)
(* Configurations.  A cell declaration holds the exported fields of CellT   *)
(* that the control flow reads; a carousel source is named by its position. *)
(***************************************************************************)
Decl(type, refresh, source, text, n) ==
    [CellType |-> type, RefreshSecs |-> refresh, Source |-> source,
     Text |-> text, Sources |-> [i \in 1..n |-> i]]

CellDecls ==
    {Decl("text", 0, "", tx, 0) : tx \in {"", "txt"}}
    \cup {Decl("time", 1, "", "", 0)}
    \cup {Decl("isalive", r, "host:80", "", 0) : r \in {0, 1}}
    \cup {Decl("localimage", 0, "", "", 0)}
    \cup {Decl("localimage", r, "img", "", 0) : r \in {0, 1}}
    \cup {Decl("urlimage", 0, "", "", 0)}
    \cup {Decl("urlimage", r, "url", "", 0) : r \in {0, 1}}
    \cup {Decl("carousel", r, "", "", n) : r \in {0, 1}, n \in 0..MaxSources}
    \cup {Decl("bogus", 0, "", "", 0)}

\* The cells of the pages that rotate, and the neighbours of a cell under study:
\* a one-shot cell and a recurring cell that do no I/O.
RotDecls ==
    {Decl("text", 0, "", "txt", 0), Decl("time", 1, "", "", 0)}

SeqsOf(S, n) == UNION {[1..k -> S] : k \in 1..n}

\* Cell lists: up to MaxCells cells, at most one of them outside RotDecls.
CellLists ==
    {cs \in SeqsOf(CellDecls, MaxCells) :
        Cardinality({i \in DOMAIN cs : cs[i] \notin RotDecls}) <= 1}

RotCellLists == SeqsOf(RotDecls, MaxCells)

Page(cells, mins) == [Cells |-> cells, DurationMins |-> mins]

\* One page of any cell list (with a duration too when the cells are of RotDecls:
\* main reads DurationMins only when there are several pages); or 2..MaxPages
\* pages that show the same cells of RotDecls, each page with or without a
\* duration.
Configs ==
    {<<Page(cs, 0)>> : cs \in CellLists}
    \cup {<<Page(cs, 1)>> : cs \in RotCellLists}
    \cup UNION {{[p \in 1..k |-> Page(cs, ds[p])] : cs \in RotCellLists, ds \in [1..k -> {0, 1}]} :
                  k \in 2..MaxPages}

NumCells(p)  == Len(Pages[p].Cells)
Cell(t)      == Pages[t[1]].Cells[t[2]]
\* the page main is on, counted from 1
Page1        == currentPageIx + 1
\* the cell whose fn process p is executing
RCell(p)     == IF p = Main THEN <<Page1, cellIx>> ELSE p
\* the history counter of a cell's renders stops at RenderCap: high enough to see a
\* carousel wrap, and to tell one render from several for every other cell
RenderCap(cell) == IF cell.CellType = "carousel" THEN MaxCount ELSE 2
Bump(n, cap) == IF n < cap THEN n + 1 ELSE n

(***************************************************************************)
(* Geometry.  Every cell is laid out by the same arithmetic, so it is       *)
(* followed for one cell, over all layouts up to MaxRes and MaxGrid.        *)
(***************************************************************************)
Layouts ==
    [Xres : (MaxRes - 1)..MaxRes, Yres : (MaxRes - 1)..MaxRes,
     Rows : 0..MaxGrid, Cols : 0..MaxGrid, Row : 0..MaxGrid, Col : 0..MaxGrid,
     Rowspan : 0..MaxGrid, Colspan : 0..MaxGrid]

\* the layout of the model of the rotation: one row of MaxCells cells
DefaultLayout ==
    [Xres |-> MaxRes, Yres |-> MaxRes, Rows |-> 1, Cols |-> MaxCells, Row |-> 1, Col |-> 1,
     Rowspan |-> 0, Colspan |-> 0]

Point(x, y) == [X |-> x, Y |-> y]

\* image.Rect: the rectangle {Min, Max}, with the coordinates swapped where
\* needed for Min <= Max
ImageRect(x0, y0, x1, y1) ==
    [Min |-> Point(IF x0 > x1 THEN x1 ELSE x0, IF y0 > y1 THEN y1 ELSE y0),
     Max |-> Point(IF x0 > x1 THEN x0 ELSE x1, IF y0 > y1 THEN y0 ELSE y1)]

\* Go's "/" on ints, for b > 0: the quotient truncated toward zero
GoDiv(a, b) == IF a >= 0 THEN a \div b ELSE -((-a) \div b)

\* mutant: a span is used as configured, 0 when it is not set
SpanOrOne_AsConfigured(span) == span

\* prepareCell: "if cell.Rowspan == 0 { cell.Rowspan = 1 }", and the same for Colspan
SpanOrOne(span) == IF span = 0 THEN 1 ELSE span

\* geometry before main has got to the page
Unprepared ==
    [at |-> "start", cellWidth |-> 0, cellHeight |-> 0, Rowspan |-> 0, Colspan |-> 0,
     positionRect |-> ImageRect(0, 0, 0, 0), picture |-> ImageRect(0, 0, 0, 0)]

\* what main, prepareCell and startOrExecute start from, whatever the configuration
AtStart ==
    /\ currentPageIx = -1
    /\ cellIx = 0
    /\ stopIx = 0
    /\ stoppers = <<>>
    /\ wg = 0
    /\ updateMu = Nobody
    /\ pc = [p \in Procs |-> IF p = Main THEN "loop" ELSE "none"]
    /\ ticker = [t \in TaskIds |-> "none"]
    /\ fn = [t \in TaskIds |-> ""]
    /\ currentSrcIx = [t \in TaskIds |-> 0]
    /\ fatal = ""
    /\ fb = [r \in Rects |-> Device]
    /\ fbcopy = [r \in Rects |-> IF httpFlag THEN Zeroed ELSE NoImage]
    /\ fbcopyMu = [w |-> Nobody, r |-> 0]
    /\ renders = [t \in TaskIds |-> 0]
    /\ opened = [t \in TaskIds |-> -1]
    /\ lastFn = [t \in TaskIds |-> "none"]
    /\ lastIo = [t \in TaskIds |-> "none"]

Init ==
    /\ Pages \in Configs
    /\ httpFlag \in BOOLEAN
    /\ AtStart
    /\ layout = DefaultLayout
    /\ geometry = Unprepared


(***************************************************************************)
(* prepareCell: the render function a type tag is bound to, and the two     *)
(* ways preparation ends the process.                                       *)
(***************************************************************************)
ClockTypes == {"datemonth", "day", "daydatemonth", "time"}

\* mutant: a type tag that matches no case is drawn as text
FnOf_DefaultText(cell) ==
    CASE cell.CellType = "carousel"   -> "drawCarousel"
      [] cell.CellType \in ClockTypes -> "drawTime"
      [] cell.CellType = "isalive"    -> "drawIsAlive"
      [] cell.CellType = "localimage" -> "drawLocalImage"
      [] cell.CellType = "urlimage"   -> "drawURLImage"
      [] OTHER                        -> "drawText"

FnOf(cell) ==
    CASE cell.CellType = "carousel"   -> "drawCarousel"
      [] cell.CellType \in ClockTypes -> "drawTime"
      [] cell.CellType = "hostname"   -> "drawText"
      [] cell.CellType = "isalive"    -> "drawIsAlive"
      [] cell.CellType = "localimage" -> "drawLocalImage"
      [] cell.CellType = "text"       -> "drawText"
      [] cell.CellType = "urlimage"   -> "drawURLImage"
      [] OTHER                        -> ""

\* mutant: prepareCell without the RefreshSecs test of isalive
PrepareFatal_NoIsAliveTest(cell) ==
    IF FnOf(cell) = "" THEN "unknown cell type" ELSE ""

\* "" when prepareCell returns, else the reason it panics or calls log.Fatalf
PrepareFatal(cell) ==
    IF cell.CellType = "isalive" /\ cell.RefreshSecs = 0 THEN "isalive refreshsecs"
    ELSE IF FnOf(cell) = "" THEN "unknown cell type"
    ELSE ""

\* mutant: every cell is taken to recur
OneShot_Never(cell) == FALSE

\* startOrExecute's test "cell.RefreshSecs == 0"
OneShot(cell) == cell.RefreshSecs = 0

\* mutant: the test before the sleep without "len(config.Pages) > 1"
Rotates_AnyPageCount(p) == Pages[p].DurationMins > 0

\* main's test before the sleep: len(config.Pages) > 1 && page.DurationMins > 0
Rotates(p) == Len(Pages) > 1 /\ Pages[p].DurationMins > 0

\* mutant: the cursor advances without wrapping
NextSrcIx_NoWrap(cur, n) == cur + 1

\* drawCarousel: "if cell.currentSrcIx++; cell.currentSrcIx == len(cell.Sources)"
NextSrcIx(cur, n) == IF cur + 1 = n THEN 0 ELSE cur + 1

\* mutant: the mutex is held across the I/O of a render function
MutexFree_HeldAcrossIo == updateMu = Nobody /\ \A p \in Procs : pc[p] # "io"

\* mutant: updateMu.Lock() that never waits
MutexFree_NeverWaits == TRUE

\* updateMu.Lock() returns only when nobody holds the mutex
MutexFree == updateMu = Nobody

\* mutant: wg.Wait() that returns at once
WaitReturns_AtOnce == TRUE

\* wg.Wait() returns only when the counter is zero
WaitReturns == wg = 0

(***************************************************************************)
(* What the I/O at the head of a render function can come to.  os.Open("")  *)
(* and http.Get("") always fail; any other path or URL may fail or not.     *)
(***************************************************************************)
IoOutcomes(t) ==
    CASE fn[t] = "drawCarousel" ->
            IF NextSrcIx(currentSrcIx[t], Len(Cell(t).Sources)) \in 0..(Len(Cell(t).Sources) - 1)
            THEN {"ok", "open", "decode"} ELSE {"index"}
      [] fn[t] = "drawLocalImage" ->
            IF Cell(t).Source = "" THEN {"open"} ELSE {"ok", "open", "decode"}
      [] fn[t] = "drawURLImage" ->
            IF Cell(t).Source = "" THEN {"fetch"} ELSE {"ok", "fetch", "decode"}
      [] fn[t] = "drawIsAlive" -> {"ok", "dial"}
      [] OTHER -> {}

\* mutant: a failure to open a local file is passed over like a failed fetch
IoFatal_OpenPassedOver(f, o) ==
    CASE o = "index" -> "index out of range"
      [] OTHER       -> ""

\* mutant: a decode failure of a local file panics like a failure to open it
IoFatal_DecodePanics(f, o) ==
    CASE o = "index" -> "index out of range"
      [] o = "open"  -> "open"
      [] o = "decode" /\ f \in {"drawLocalImage", "drawCarousel"} -> "decode"
      [] OTHER       -> ""

\* what an outcome does to the process: "" when it lives on
IoFatal(f, o) ==
    CASE o = "index" -> "index out of range"      \* cell.Sources[cell.currentSrcIx]
      [] o = "open"  -> "open"                    \* panic(err) after os.Open
      [] OTHER       -> ""                        \* drawImage logs a decode failure and returns

\* mutant: drawURLImage goes on to drawImage and render whatever http.Get returned
IoPublishes_ErrIgnored(f, o) ==
    o = "ok" \/ (f = "drawIsAlive" /\ o = "dial") \/ (f = "drawURLImage" /\ o = "fetch")

\* whether the function goes on to lock and publish
IoPublishes(f, o) == o = "ok" \/ (f = "drawIsAlive" /\ o = "dial")

\* mutant: drawIsAlive that fills green whatever the dial came to
SrcImg_AlwaysGreen(t) ==
    CASE fn[t] = "drawText"    -> Pixels("text", -1)
      [] fn[t] = "drawTime"    -> Pixels("time", -1)
      [] fn[t] = "drawIsAlive" -> Pixels("green+label", -1)
      [] fn[t] = "drawCarousel" -> Pixels("image", currentSrcIx[t])
      [] OTHER                 -> Pixels("image", 0)

\* the srcImg a draw function passes to render: cell.picture after the fill and
\* writeText, or the decoded and scaled sImg of drawImage
SrcImg(t) ==
    CASE fn[t] = "drawText"    -> Pixels("text", -1)
      [] fn[t] = "drawTime"    -> Pixels("time", -1)
      [] fn[t] = "drawIsAlive" ->
            IF lastIo[t] = "ok" THEN Pixels("green+label", -1) ELSE Pixels("red+label", -1)
      [] fn[t] = "drawCarousel" -> Pixels("image", currentSrcIx[t])
      [] OTHER                 -> Pixels("image", 0)

\* mutant: the index stays on the last page
NextPageIx_StayOnLast(cur, n) == IF cur + 1 = n THEN cur ELSE cur + 1

\* main: "if config.currentPageIx++; config.currentPageIx == len(config.Pages)"
NextPageIx(cur, n) == IF cur + 1 = n THEN 0 ELSE cur + 1

\* mutant: a tick is taken whatever the goroutine is doing
TickReady_MidRender(t) == pc[t] \notin {"none", "stopped", "exited"}

\* the goroutine is blocked in its select, where "case <-ticker.C" can be taken
TickReady(t) == pc[t] = "select"

\* mutant: a stop is taken whatever the goroutine is doing
StopReady_MidRender(t) == pc[t] \notin {"none", "stopped", "exited"}

\* the goroutine is blocked in its select, where "case <-stop" can be taken
StopReady(t) == pc[t] = "select"

\* mutant: fbcopyMu.RLock() that does not wait for the writer
RLockFree_NeverWaits == TRUE

\* fbcopyMu.RLock() returns when no writer holds the mutex or has asked for it
RLockFree == \A p \in Procs : pc[p] \notin {"fbcopy", "fbcopying"}

(***************************************************************************)
(* Leaving the cell loop's body: the next cell, or the code after the loop. *)
(***************************************************************************)
MainNextCell(toPc) ==
    IF cellIx < NumCells(Page1)
    THEN /\ cellIx' = cellIx + 1
         /\ pc' = [pc EXCEPT ![Main] = "prepare"]
    ELSE /\ cellIx' = cellIx
         /\ pc' = [pc EXCEPT ![Main] = toPc]

AfterCells == IF Rotates(Page1) THEN "sleep" ELSE "wait"

\* cell.fn returns to its caller: the goroutine's select, or startOrExecute in main
FnReturns(p, how) ==
    /\ lastFn' = [lastFn EXCEPT ![RCell(p)] = how]
    /\ IF p = Main
       THEN IF OneShot(Cell(RCell(p)))
            THEN MainNextCell(AfterCells)
            ELSE pc' = [pc EXCEPT ![Main] = "spawn"] /\ UNCHANGED cellIx
       ELSE pc' = [pc EXCEPT ![p] = "select"] /\ UNCHANGED cellIx

\* cell.fn is called by p for cell t
BeginFn(p, t) ==
    /\ pc' = [pc EXCEPT ![p] = IF fn[t] \in {"drawText", "drawTime"} THEN "lock" ELSE "io"]
    /\ renders' = [renders EXCEPT ![t] = Bump(@, RenderCap(Cell(t)))]
    /\ lastFn' = [lastFn EXCEPT ![t] = "running"]
    /\ lastIo' = [lastIo EXCEPT ![t] = "none"]


(***************************************************************************)
(* main: the rotation loop.                                                 *)
(***************************************************************************)
\* top of "for": advance currentPageIx circularly, resolve the page, call render(blanker)
MainLoop ==
    /\ fatal = "" /\ pc[Main] = "loop"
    /\ currentPageIx' = NextPageIx(currentPageIx, Len(Pages))
    /\ cellIx' = 0
    /\ pc' = [pc EXCEPT ![Main] = "fbdraw"]
    /\ renders' = [t \in TaskIds |-> 0]
    /\ opened' = [t \in TaskIds |-> -1]
    /\ lastFn' = [t \in TaskIds |-> "none"]
    /\ lastIo' = [t \in TaskIds |-> "none"]
    /\ UNCHANGED <<fb, fbcopy, fbcopyMu>>
    /\ UNCHANGED <<layout, geometry>>
    /\ UNCHANGED <<Pages, httpFlag, stopIx, stoppers, wg, updateMu, ticker, fn,
                   currentSrcIx, fatal>>

\* page.font = loadFont(page.FontFile): panics when the file is absent or corrupt
LoadFont ==
    /\ fatal = "" /\ pc[Main] = "font"
    /\ \E ok \in BOOLEAN :
        IF ok THEN /\ cellIx' = 1
                   /\ pc' = [pc EXCEPT ![Main] = "prepare"]
                   /\ fatal' = fatal
              ELSE /\ fatal' = "font"
                   /\ UNCHANGED <<cellIx, pc>>
    /\ UNCHANGED <<fb, fbcopy, fbcopyMu>>
    /\ UNCHANGED <<layout, geometry>>
    /\ UNCHANGED <<Pages, httpFlag, currentPageIx, stopIx, stoppers, wg, updateMu, ticker,
                   fn, currentSrcIx, renders, opened, lastFn, lastIo>>

\* prepareCell(page, cell)
PrepareCell ==
    /\ fatal = "" /\ pc[Main] = "prepare"
    /\ LET t == <<Page1, cellIx>> IN
        IF PrepareFatal(Cell(t)) # ""
        THEN /\ fatal' = PrepareFatal(Cell(t))
             /\ UNCHANGED <<pc, fn, currentSrcIx, renders, opened, lastFn, lastIo>>
        ELSE /\ fatal' = fatal
             /\ fn' = [fn EXCEPT ![t] = FnOf(Cell(t))]
             /\ currentSrcIx' = [currentSrcIx EXCEPT ![t] =
                                    IF Cell(t).CellType = "carousel" THEN -1 ELSE @]
             /\ renders' = [renders EXCEPT ![t] = 0]
             /\ opened' = [opened EXCEPT ![t] = -1]
             /\ lastFn' = [lastFn EXCEPT ![t] = "none"]
             /\ lastIo' = [lastIo EXCEPT ![t] = "none"]
             /\ pc' = [pc EXCEPT ![Main] = "start"]
    /\ UNCHANGED <<fb, fbcopy, fbcopyMu>>
    /\ UNCHANGED <<layout, geometry>>
    /\ UNCHANGED <<Pages, httpFlag, currentPageIx, cellIx, stopIx, stoppers, wg, updateMu,
                   ticker>>

\* mutant: startOrExecute without the immediate cell.fn call for a recurring cell
StartOrExecute_NoFirstRender ==
    /\ fatal = "" /\ pc[Main] = "start"
    /\ IF Cell(<<Page1, cellIx>>).RefreshSecs = 0
       THEN BeginFn(Main, <<Page1, cellIx>>)
       ELSE /\ pc' = [pc EXCEPT ![Main] = "spawn"]
            /\ UNCHANGED <<renders, lastFn, lastIo>>
    /\ UNCHANGED <<fb, fbcopy, fbcopyMu>>
    /\ UNCHANGED <<layout, geometry>>
    /\ UNCHANGED <<Pages, httpFlag, currentPageIx, cellIx, stopIx, stoppers, wg, updateMu,
                   ticker, fn, currentSrcIx, fatal, opened>>

\* startOrExecute: the first, synchronous cell.fn(wg, updateMu, cell)
StartOrExecute ==
    /\ fatal = "" /\ pc[Main] = "start"
    /\ BeginFn(Main, <<Page1, cellIx>>)
    /\ UNCHANGED <<fb, fbcopy, fbcopyMu>>
    /\ UNCHANGED <<layout, geometry>>
    /\ UNCHANGED <<Pages, httpFlag, currentPageIx, cellIx, stopIx, stoppers, wg, updateMu,
                   ticker, fn, currentSrcIx, fatal, opened>>

\* startOrExecute: time.NewTicker, make(chan bool), go func()
Spawn ==
    /\ fatal = "" /\ pc[Main] = "spawn"
    /\ LET t == <<Page1, cellIx>> IN
        /\ ticker' = [ticker EXCEPT ![t] = "empty"]
        /\ pc' = [pc EXCEPT ![Main] = "wgadd", ![t] = "select"]
    /\ UNCHANGED <<fb, fbcopy, fbcopyMu>>
    /\ UNCHANGED <<layout, geometry>>
    /\ UNCHANGED <<Pages, httpFlag, currentPageIx, cellIx, stopIx, stoppers, wg, updateMu,
                   fn, currentSrcIx, fatal, renders, opened, lastFn, lastIo>>

\* startOrExecute: wg.Add(1); return stop, which main appends to stoppers
WgAdd ==
    /\ fatal = "" /\ pc[Main] = "wgadd"
    /\ wg' = wg + 1
    /\ stoppers' = Append(stoppers, <<Page1, cellIx>>)
    /\ MainNextCell(AfterCells)
    /\ UNCHANGED <<fb, fbcopy, fbcopyMu>>
    /\ UNCHANGED <<layout, geometry>>
    /\ UNCHANGED <<Pages, httpFlag, currentPageIx, stopIx, updateMu, ticker, fn,
                   currentSrcIx, fatal, renders, opened, lastFn, lastIo>>

\* time.Sleep(page.DurationMins) returns
SleepDone ==
    /\ fatal = "" /\ pc[Main] = "sleep"
    /\ stopIx' = IF stoppers = <<>> THEN 0 ELSE 1
    /\ pc' = [pc EXCEPT ![Main] = IF stoppers = <<>> THEN "wait" ELSE "stop"]
    /\ UNCHANGED <<fb, fbcopy, fbcopyMu>>
    /\ UNCHANGED <<layout, geometry>>
    /\ UNCHANGED <<Pages, httpFlag, currentPageIx, cellIx, stoppers, wg, updateMu, ticker,
                   fn, currentSrcIx, fatal, renders, opened, lastFn, lastIo>>

\* "s <- true" meets "case <-stop" of the goroutine that owns the channel
SendStop ==
    /\ fatal = "" /\ pc[Main] = "stop"
    /\ LET t == stoppers[stopIx] IN
        /\ StopReady(t)
        /\ pc' = [pc EXCEPT ![t] = "stopped",
                            ![Main] = IF stopIx = Len(stoppers) THEN "wait" ELSE "stop"]
    /\ stopIx' = IF stopIx = Len(stoppers) THEN 0 ELSE stopIx + 1
    /\ UNCHANGED <<fb, fbcopy, fbcopyMu>>
    /\ UNCHANGED <<layout, geometry>>
    /\ UNCHANGED <<Pages, httpFlag, currentPageIx, cellIx, stoppers, wg, updateMu, ticker,
                   fn, currentSrcIx, fatal, renders, opened, lastFn, lastIo>>

\* mutant: the loop starts over without "stoppers = nil"
Wait_KeepsStoppers ==
    /\ fatal = "" /\ pc[Main] = "wait"
    /\ WaitReturns
    /\ pc' = [pc EXCEPT ![Main] = "loop"]
    /\ UNCHANGED <<fb, fbcopy, fbcopyMu>>
    /\ UNCHANGED <<layout, geometry>>
    /\ UNCHANGED <<Pages, httpFlag, currentPageIx, cellIx, stopIx, stoppers, wg, updateMu,
                   ticker, fn, currentSrcIx, fatal, renders, opened, lastFn, lastIo>>

\* wg.Wait() returns; stoppers = nil; the loop starts over
Wait ==
    /\ fatal = "" /\ pc[Main] = "wait"
    /\ WaitReturns
    /\ stoppers' = <<>>
    /\ pc' = [pc EXCEPT ![Main] = "loop"]
    /\ UNCHANGED <<fb, fbcopy, fbcopyMu>>
    /\ UNCHANGED <<layout, geometry>>
    /\ UNCHANGED <<Pages, httpFlag, currentPageIx, cellIx, stopIx, wg, updateMu, ticker,
                   fn, currentSrcIx, fatal, renders, opened, lastFn, lastIo>>

(***************************************************************************)
(* The goroutine of a recurring cell.                                       *)
(***************************************************************************)
\* the runtime sends on ticker.C, a channel of capacity 1 (a tick is dropped when full)
Tick(t) ==
    /\ fatal = "" /\ ticker[t] = "empty"
    /\ ticker' = [ticker EXCEPT ![t] = "full"]
    /\ UNCHANGED <<fb, fbcopy, fbcopyMu>>
    /\ UNCHANGED <<layout, geometry>>
    /\ UNCHANGED <<Pages, httpFlag, currentPageIx, cellIx, stopIx, stoppers, wg, updateMu,
                   pc, fn, currentSrcIx, fatal, renders, opened, lastFn, lastIo>>

\* "case <-ticker.C: cell.fn(wg, updateMu, cell)"
TaskTick(t) ==
    /\ fatal = "" /\ TickReady(t) /\ ticker[t] = "full"
    /\ ticker' = [ticker EXCEPT ![t] = "empty"]
    /\ BeginFn(t, t)
    /\ UNCHANGED <<fb, fbcopy, fbcopyMu>>
    /\ UNCHANGED <<layout, geometry>>
    /\ UNCHANGED <<Pages, httpFlag, currentPageIx, cellIx, stopIx, stoppers, wg, updateMu,
                   fn, currentSrcIx, fatal, opened>>

\* mutant: the goroutine returns after "case <-stop" without wg.Done()
TaskDone_NoDone(t) ==
    /\ fatal = "" /\ pc[t] = "stopped"
    /\ pc' = [pc EXCEPT ![t] = "exited"]
    /\ ticker' = [ticker EXCEPT ![t] = "orphan"]
    /\ UNCHANGED <<fb, fbcopy, fbcopyMu>>
    /\ UNCHANGED <<layout, geometry>>
    /\ UNCHANGED <<Pages, httpFlag, currentPageIx, cellIx, stopIx, stoppers, wg, updateMu,
                   fn, currentSrcIx, fatal, renders, opened, lastFn, lastIo>>

\* after "case <-stop": wg.Done(); return.  The ticker is not stopped: it runs on,
\* and what it sends on a channel nobody reads any more is not modelled.
TaskDone(t) ==
    /\ fatal = "" /\ pc[t] = "stopped"
    /\ wg' = wg - 1
    /\ pc' = [pc EXCEPT ![t] = "exited"]
    /\ ticker' = [ticker EXCEPT ![t] = "orphan"]
    /\ UNCHANGED <<fb, fbcopy, fbcopyMu>>
    /\ UNCHANGED <<layout, geometry>>
    /\ UNCHANGED <<Pages, httpFlag, currentPageIx, cellIx, stopIx, stoppers, updateMu,
                   fn, currentSrcIx, fatal, renders, opened, lastFn, lastIo>>

(***************************************************************************)
(* The render functions, run by main (first render) or by a goroutine.      *)
(***************************************************************************)
\* drawCarousel, drawLocalImage, drawURLImage up to updateMu.Lock(); drawIsAlive up
\* to the test of net.DialTimeout's err
Io(p) ==
    /\ fatal = "" /\ pc[p] = "io"
    /\ LET t == RCell(p)
           isCar == fn[t] = "drawCarousel"
           ix == NextSrcIx(currentSrcIx[t], Len(Cell(t).Sources))
       IN
        /\ currentSrcIx' = [currentSrcIx EXCEPT ![t] = IF isCar THEN ix ELSE @]
        /\ \E o \in IoOutcomes(t) :
            /\ opened' = [opened EXCEPT ![t] = IF isCar /\ o # "index" THEN ix ELSE @]
            /\ lastIo' = [lastIo EXCEPT ![t] = o]
            /\ IF IoFatal(fn[t], o) # ""
               THEN /\ fatal' = IoFatal(fn[t], o)
                    /\ UNCHANGED <<pc, cellIx, lastFn>>
               ELSE /\ fatal' = fatal
                    /\ IF IoPublishes(fn[t], o)
                       THEN /\ pc' = [pc EXCEPT ![p] = IF fn[t] = "drawIsAlive" /\ o = "ok"
                                                       THEN "close" ELSE "lock"]
                            /\ UNCHANGED <<cellIx, lastFn>>
                       ELSE FnReturns(p, "skipped")
    /\ UNCHANGED <<fb, fbcopy, fbcopyMu>>
    /\ UNCHANGED <<layout, geometry>>
    /\ UNCHANGED <<Pages, httpFlag, currentPageIx, stopIx, stoppers, wg, updateMu, ticker,
                   fn, renders>>

\* mutant: a draw function that calls render without updateMu.Lock()
Lock_NotTaken(p) ==
    /\ fatal = "" /\ pc[p] = "lock"
    /\ pc' = [pc EXCEPT ![p] = "fbdraw"]
    /\ UNCHANGED <<fb, fbcopy, fbcopyMu>>
    /\ UNCHANGED <<layout, geometry>>
    /\ UNCHANGED <<Pages, httpFlag, currentPageIx, cellIx, stopIx, stoppers, wg, updateMu,
                   ticker, fn, currentSrcIx, fatal, renders, opened, lastFn, lastIo>>

\* updateMu.Lock(), the drawing into cell.picture, and the call of render
Lock(p) ==
    /\ fatal = "" /\ pc[p] = "lock"
    /\ MutexFree
    /\ updateMu' = p
    /\ pc' = [pc EXCEPT ![p] = "fbdraw"]
    /\ UNCHANGED <<fb, fbcopy, fbcopyMu>>
    /\ UNCHANGED <<layout, geometry>>
    /\ UNCHANGED <<Pages, httpFlag, currentPageIx, cellIx, stopIx, stoppers, wg, ticker,
                   fn, currentSrcIx, fatal, renders, opened, lastFn, lastIo>>

\* drawIsAlive, err == nil: c.Close() and the green fill
Close(p) ==
    /\ fatal = "" /\ pc[p] = "close"
    /\ pc' = [pc EXCEPT ![p] = "lock"]
    /\ UNCHANGED <<fb, fbcopy, fbcopyMu>>
    /\ UNCHANGED <<layout, geometry>>
    /\ UNCHANGED <<Pages, httpFlag, currentPageIx, cellIx, stopIx, stoppers, wg, updateMu,
                   ticker, fn, currentSrcIx, fatal, renders, opened, lastFn, lastIo>>

\* mutant: a blanker the size of one cell
Drawn_BlankerOneCell(p, surface) ==
    IF p = Main /\ cellIx = 0
    THEN [surface EXCEPT ![1] = Black]
    ELSE [surface EXCEPT ![RCell(p)[2]] = SrcImg(RCell(p))]

\* the rectangles a call of render covers and what it draws there: all of them,
\* black, for main's blanker; else the cell's own
Drawn(p, surface) ==
    IF p = Main /\ cellIx = 0
    THEN [r \in Rects |-> Black]
    ELSE [surface EXCEPT ![RCell(p)[2]] = SrcImg(RCell(p))]

\* mutant: the draw function returns without updateMu.Unlock()
RenderReturns_NoUnlock(p) ==
    IF p = Main /\ cellIx = 0
    THEN /\ pc' = [pc EXCEPT ![Main] = "font"]
         /\ UNCHANGED <<cellIx, updateMu, lastFn>>
    ELSE /\ updateMu' = updateMu
         /\ FnReturns(p, "published")

\* render returns: to main after the blanker, else to the draw function, which
\* unlocks updateMu and returns
RenderReturns(p) ==
    IF p = Main /\ cellIx = 0
    THEN /\ pc' = [pc EXCEPT ![Main] = "font"]
         /\ UNCHANGED <<cellIx, updateMu, lastFn>>
    ELSE /\ updateMu' = IF updateMu = p THEN Nobody ELSE updateMu
         /\ FnReturns(p, "published")

\* render: fb.DrawImage(destRect.Min.X, destRect.Min.Y, srcImg)
FbDraw(p) ==
    /\ fatal = "" /\ pc[p] = "fbdraw"
    /\ fb' = Drawn(p, fb)
    /\ IF httpFlag
       THEN /\ pc' = [pc EXCEPT ![p] = "fbcopy"]
            /\ UNCHANGED <<cellIx, updateMu, lastFn>>
       ELSE RenderReturns(p)
    /\ UNCHANGED <<fbcopy, fbcopyMu>>
    /\ UNCHANGED <<layout, geometry>>
    /\ UNCHANGED <<Pages, httpFlag, currentPageIx, stopIx, stoppers, wg, ticker, fn,
                   currentSrcIx, fatal, renders, opened, lastIo>>

\* render: fbcopyMu.Lock() returns, when no reader is inside and no writer holds it
FbCopyLock(p) ==
    /\ fatal = "" /\ pc[p] = "fbcopy"
    /\ fbcopyMu.w = Nobody /\ fbcopyMu.r = 0
    /\ fbcopyMu' = [fbcopyMu EXCEPT !.w = p]
    /\ pc' = [pc EXCEPT ![p] = "fbcopying"]
    /\ UNCHANGED <<fb, fbcopy>>
    /\ UNCHANGED <<layout, geometry>>
    /\ UNCHANGED <<Pages, httpFlag, currentPageIx, cellIx, stopIx, stoppers, wg, updateMu,
                   ticker, fn, currentSrcIx, fatal, renders, opened, lastFn, lastIo>>

\* mutant: render takes and releases fbcopyMu without drawing on fbcopy
FbCopy_NoDraw(p) ==
    /\ fatal = "" /\ pc[p] = "fbcopying"
    /\ fbcopyMu' = [fbcopyMu EXCEPT !.w = Nobody]
    /\ RenderReturns(p)
    /\ UNCHANGED <<fb, fbcopy>>
    /\ UNCHANGED <<layout, geometry>>
    /\ UNCHANGED <<Pages, httpFlag, currentPageIx, stopIx, stoppers, wg, ticker, fn,
                   currentSrcIx, fatal, renders, opened, lastIo>>

\* render: draw.Draw(fbcopy, destRect, srcImg, ...), done; fbcopyMu.Unlock()
FbCopy(p) ==
    /\ fatal = "" /\ pc[p] = "fbcopying"
    /\ fbcopy' = Drawn(p, fbcopy)
    /\ fbcopyMu' = [fbcopyMu EXCEPT !.w = Nobody]
    /\ RenderReturns(p)
    /\ UNCHANGED fb
    /\ UNCHANGED <<layout, geometry>>
    /\ UNCHANGED <<Pages, httpFlag, currentPageIx, stopIx, stoppers, wg, ticker, fn,
                   currentSrcIx, fatal, renders, opened, lastIo>>

(***************************************************************************)
(* fbcopyHandler, run by the HTTP server for each request.                  *)
(***************************************************************************)
\* fbcopyMu.RLock() returns; enc.Encode(buff, fbcopy) begins
RLock ==
    /\ fatal = "" /\ httpFlag
    /\ fbcopyMu.r < Cardinality(Clients)
    /\ RLockFree
    /\ fbcopyMu' = [fbcopyMu EXCEPT !.r = @ + 1]
    /\ UNCHANGED <<fb, fbcopy>>
    /\ UNCHANGED <<layout, geometry>>
    /\ UNCHANGED <<Pages, httpFlag, currentPageIx, cellIx, stopIx, stoppers, wg, updateMu,
                   pc, ticker, fn, currentSrcIx, fatal, renders, opened, lastFn, lastIo>>

\* enc.Encode is done; fbcopyMu.RUnlock()
RUnlock ==
    /\ fatal = "" /\ fbcopyMu.r > 0
    /\ fbcopyMu' = [fbcopyMu EXCEPT !.r = @ - 1]
    /\ UNCHANGED <<fb, fbcopy>>
    /\ UNCHANGED <<layout, geometry>>
    /\ UNCHANGED <<Pages, httpFlag, currentPageIx, cellIx, stopIx, stoppers, wg, updateMu,
                   pc, ticker, fn, currentSrcIx, fatal, renders, opened, lastFn, lastIo>>

Next ==
    \/ MainLoop
    \/ LoadFont
    \/ PrepareCell
    \/ StartOrExecute
    \/ Spawn
    \/ WgAdd
    \/ SleepDone
    \/ SendStop
    \/ Wait
    \/ \E t \in TaskIds : Tick(t)
    \/ \E t \in TaskIds : TaskTick(t)
    \/ \E t \in TaskIds : TaskDone(t)
    \/ \E p \in Procs : Io(p)
    \/ \E p \in Procs : Lock(p)
    \/ \E p \in Procs : Close(p)
    \/ \E p \in Procs : FbDraw(p)
    \/ \E p \in Procs : FbCopyLock(p)
    \/ \E p \in Procs : FbCopy(p)

(***************************************************************************)
(* The geometry of a cell: main's page.cellWidth and page.cellHeight, then  *)
(* the head of prepareCell.                                                 *)
(***************************************************************************)
GeomUnchanged ==
    UNCHANGED <<Pages, httpFlag, currentPageIx, cellIx, stopIx, stoppers, wg, updateMu, pc,
                ticker, fn, currentSrcIx, fatal, fb, fbcopy, fbcopyMu, renders, opened,
                lastFn, lastIo, layout>>

\* main: page.cellWidth = fb.Xres / page.Cols; page.cellHeight = fb.Yres / page.Rows
\* (a page without Rows or Cols panics: integer divide by zero)
CellSize ==
    /\ geometry.at = "start"
    /\ IF layout.Cols = 0 \/ layout.Rows = 0
       THEN geometry' = [geometry EXCEPT !.at = "divide by zero"]
       ELSE geometry' = [geometry EXCEPT !.at = "main",
                                         !.cellWidth = GoDiv(layout.Xres, layout.Cols),
                                         !.cellHeight = GoDiv(layout.Yres, layout.Rows)]
    /\ GeomUnchanged

\* prepareCell, up to cell.picture = image.NewNRGBA(...)
PrepareGeometry ==
    /\ geometry.at = "main"
    /\ LET topLeftX == (layout.Col - 1) * geometry.cellWidth
           topLeftY == (layout.Row - 1) * geometry.cellHeight
           rowspan  == SpanOrOne(layout.Rowspan)
           colspan  == SpanOrOne(layout.Colspan)
       IN  geometry' =
             [geometry EXCEPT
                !.at = "prepared", !.Rowspan = rowspan, !.Colspan = colspan,
                !.positionRect = ImageRect(topLeftX, topLeftY,
                                           topLeftX + geometry.cellWidth * colspan,
                                           topLeftY + geometry.cellHeight * rowspan),
                !.picture = ImageRect(0, 0, geometry.cellWidth * colspan,
                                            geometry.cellHeight * rowspan)]
    /\ GeomUnchanged

GeomInit ==
    /\ Pages = <<Page(<<Decl("text", 0, "", "txt", 0)>>, 0)>>
    /\ httpFlag = FALSE
    /\ AtStart
    /\ layout \in Layouts
    /\ geometry = Unprepared

GeomNext ==
    \/ CellSize
    \/ PrepareGeometry

GeomSpec == GeomInit /\ [][GeomNext]_vars

\* The program while no HTTP request arrives.
Spec == Init /\ [][Next]_vars

\* The program started with -http and requests arriving at any time, up to
\* Clients at once.
HttpInit == Init /\ httpFlag

HttpNext ==
    \/ Next
    \/ RLock
    \/ RUnlock

HttpSpec == HttpInit /\ [][HttpNext]_vars

(***************************************************************************)
(* The same program under the scheduling the Go runtime gives it: main and  *)
(* every goroutine that can take a step eventually takes it, the ticker     *)
(* keeps ticking, every I/O call returns, and a goroutine that keeps asking *)
(* for updateMu gets it (sync.Mutex hands a starving waiter the lock).      *)
(***************************************************************************)
Fairness ==
    /\ WF_vars(MainLoop) /\ WF_vars(LoadFont) /\ WF_vars(PrepareCell)
    /\ WF_vars(StartOrExecute) /\ WF_vars(Spawn) /\ WF_vars(WgAdd)
    /\ WF_vars(SleepDone) /\ WF_vars(SendStop) /\ WF_vars(Wait)
    /\ \A t \in TaskIds : WF_vars(Tick(t)) /\ WF_vars(TaskTick(t)) /\ WF_vars(TaskDone(t))
    /\ \A p \in Procs : WF_vars(Io(p)) /\ WF_vars(Close(p)) /\ SF_vars(Lock(p))
                         /\ WF_vars(FbDraw(p)) /\ WF_vars(FbCopyLock(p)) /\ WF_vars(FbCopy(p))

FairSpec == Spec /\ Fairness

(***************************************************************************)
(* The same scheduling, except that an I/O call (os.Open, http.Get with the *)
(* default client, which has no timeout, image.Decode of a response body)   *)
(* may never return.                                                        *)
(***************************************************************************)
HangFairness ==
    /\ WF_vars(MainLoop) /\ WF_vars(LoadFont) /\ WF_vars(PrepareCell)
    /\ WF_vars(StartOrExecute) /\ WF_vars(Spawn) /\ WF_vars(WgAdd)
    /\ WF_vars(SleepDone) /\ WF_vars(SendStop) /\ WF_vars(Wait)
    /\ \A t \in TaskIds : WF_vars(Tick(t)) /\ WF_vars(TaskTick(t)) /\ WF_vars(TaskDone(t))
    /\ \A p \in Procs : WF_vars(Close(p)) /\ SF_vars(Lock(p))
                         /\ WF_vars(FbDraw(p)) /\ WF_vars(FbCopyLock(p)) /\ WF_vars(FbCopy(p))

HangSpec == Spec /\ HangFairness

(***************************************************************************)
(* FairSpec with the fairness of select: when both "case <-stop" and        *)
(* "case <-ticker.C" can proceed the runtime picks one pseudo-randomly, so  *)
(* a goroutine that is in its select again and again, with main blocked in  *)
(* "s <- true", does not take the tick every time.                          *)
(***************************************************************************)
SelectFairSpec == FairSpec /\ SF_vars(SendStop)


(***************************************************************************)
(* The claims.                                                              *)
(***************************************************************************)
InRender(p) == pc[p] \in {"fbdraw", "fbcopy", "fbcopying"}
Live(t)     == pc[t] \notin {"none", "exited"}
Declared(t) == t[1] \in DOMAIN Pages /\ t[2] \in DOMAIN Pages[t[1]].Cells
\* prepareCell has returned for cell t in the current iteration of main's loop
PreparedNow(t) ==
    /\ t[1] = Page1 /\ cellIx # 0
    /\ t[2] < cellIx \/ (t[2] = cellIx /\ pc[Main] # "prepare")

\* C1: at most one process (main on a first render or on the blanker, or the
\* goroutine of a cell) is inside render() at any time.
C1_OnePublisher == Cardinality({p \in Procs : InRender(p)}) <= 1

\* C1 witness: a goroutine is inside render() while main, on the first render of
\* the next cell, waits for updateMu.
C1_Witness ==
    \E t \in TaskIds : InRender(t) /\ updateMu = t /\ pc[Main] = "lock"

\* C2: a goroutine of a page that rotates (more than one page, DurationMins > 0)
\* is alive only while main is on that page, past the blanker and the cell's own
\* startOrExecute: when main blanks the surface for the next page, prepares or
\* renders one of its cells, every goroutine of the page before has taken its
\* stop, called wg.Done and returned.
C2_DrainedBeforeNext ==
    \A t \in TaskIds :
        (Declared(t) /\ Len(Pages) > 1 /\ Pages[t[1]].DurationMins > 0 /\ Live(t)) =>
            /\ Page1 = t[1]
            /\ pc[Main] \notin {"loop", "font"}
            /\ cellIx # 0
            /\ \/ pc[Main] \in {"sleep", "stop", "wait"}
               \/ cellIx > t[2]
               \/ cellIx = t[2] /\ pc[Main] = "wgadd"

\* C2 witness: main is blanking the surface for the next page and a goroutine of
\* the page before, which rotates, has returned.
C2_Witness ==
    /\ Len(Pages) > 1 /\ pc[Main] = "fbdraw" /\ cellIx = 0
    /\ \E t \in TaskIds :
        /\ Declared(t) /\ t[1] # Page1 /\ Pages[t[1]].DurationMins > 0
        /\ pc[t] = "exited" /\ ticker[t] = "orphan"

\* C3: a cell with RefreshSecs = 0 never has a goroutine, a ticker or a stop
\* channel, the WaitGroup counts the goroutines of the other cells only, and in
\* each iteration of main's loop its render function is invoked exactly once, by
\* main: not before the cell is prepared and startOrExecute is entered, and once
\* from then on.
C3_OneShotOnce ==
    /\ \A t \in TaskIds :
        (Declared(t) /\ Cell(t).RefreshSecs = 0) =>
            /\ pc[t] = "none" /\ ticker[t] = "none"
            /\ \A i \in DOMAIN stoppers : stoppers[i] # t
            /\ renders[t] = IF PreparedNow(t) /\ ~(pc[Main] = "start" /\ RCell(Main) = t)
                            THEN 1 ELSE 0
    /\ wg = Cardinality({t \in TaskIds : Live(t) /\ ~(pc[Main] = "wgadd" /\ RCell(Main) = t)})

\* C3 witness: main has gone through a page, one of whose cells is one-shot and
\* was rendered and published once, and waits on the WaitGroup.
C3_Witness ==
    /\ pc[Main] = "wait"
    /\ \E t \in TaskIds :
        /\ Declared(t) /\ t[1] = Page1 /\ Cell(t).RefreshSecs = 0
        /\ renders[t] = 1 /\ lastFn[t] = "published"


\* C4: a recurring cell is rendered once by main before its goroutine exists;
\* the goroutine starts a render exactly when it takes a tick from ticker.C,
\* one render per tick taken; and a goroutine that is never stopped, in a
\* process that does not die, starts a render again and again for ever.
C4_FirstRenderDone ==
    \A t \in TaskIds :
        /\ Live(t) => renders[t] >= 1
        /\ (pc[Main] = "spawn" /\ RCell(Main) = t) =>
              /\ renders[t] = 1 /\ lastFn[t] \in {"published", "skipped"}
              /\ ~Live(t)

C4_RenderPerTick ==
    \A t \in TaskIds :
        LET tookTick == ticker[t] = "full" /\ ticker'[t] = "empty"
            begins   == pc[t] = "select" /\ pc'[t] \in {"io", "lock"}
        IN  /\ tookTick <=> begins
            /\ begins => /\ renders'[t] = Bump(renders[t], RenderCap(Cell(t)))
                         /\ lastFn'[t] = "running"

C4_RendersForEver ==
    \A t \in TaskIds :
        <>[](Live(t) /\ pc[t] # "stopped" /\ fatal = "") => []<><<TaskTick(t)>>_vars

C4_ImmediateThenPerTick ==
    /\ []C4_FirstRenderDone
    /\ [][C4_RenderPerTick]_vars
    /\ C4_RendersForEver

\* C4 witness: the goroutine of a recurring cell has taken a tick and is in its
\* render, the second of the cell, after the first one by main was published.
C4_Witness ==
    \E t \in TaskIds : pc[t] = "fbdraw" /\ renders[t] = 2 /\ ticker[t] = "empty"


\* C5: with one page whose cells all have RefreshSecs = 0 the program ends once
\* the grid is drawn: main does not start on the page a second time.
C5_EndsOnceDrawn ==
    (Len(Pages) = 1 /\ \A c \in DOMAIN Pages[1].Cells : Pages[1].Cells[c].RefreshSecs = 0) =>
        ~(pc[Main] = "fbdraw" /\ cellIx = 0 /\ fn[<<1, 1>>] # "")

\* C6: the goroutine of a page that does not rotate (the only page, or no
\* DurationMins) is never stopped and main never leaves that page while it
\* lives; and with several pages or a recurring cell a process that has not died
\* of a fatal error always has a next step.
C6_NoTerminalState ==
    /\ \A t \in TaskIds :
        (Declared(t) /\ ~(Len(Pages) > 1 /\ Pages[t[1]].DurationMins > 0)) =>
            /\ pc[t] \notin {"stopped", "exited"}
            /\ Live(t) => /\ Page1 = t[1] /\ cellIx # 0
                          /\ pc[Main] \notin {"loop", "font", "sleep", "stop"}
    /\ ( /\ fatal = ""
         /\ \/ Len(Pages) > 1
            \/ \E p \in DOMAIN Pages : \E c \in DOMAIN Pages[p].Cells :
                   Pages[p].Cells[c].RefreshSecs > 0 )
       => ENABLED Next

\* C6 witness: the only page has a DurationMins, main is blocked in wg.Wait() and
\* the goroutine of a recurring cell is in its render after a tick.
C6_Witness ==
    /\ Len(Pages) = 1 /\ Pages[1].DurationMins > 0 /\ pc[Main] = "wait" /\ wg > 0
    /\ \E t \in TaskIds : pc[t] = "fbdraw" /\ renders[t] = 2

\* cell.fn has been called for cell t and its I/O has not come to anything yet
BeforeIo(t) == lastFn[t] = "running" /\ lastIo[t] = "none"

\* C7: for a prepared carousel with n >= 1 sources the cursor is -1 until the
\* first render has advanced it, and once the k-th render since preparation has
\* advanced it the cursor is (k-1) mod n, in 0..n-1, and that is the source opened.
C7_CarouselCycles ==
    \A t \in TaskIds :
        (Declared(t) /\ PreparedNow(t) /\ fn[t] = "drawCarousel" /\ Len(Cell(t).Sources) >= 1) =>
            LET n == Len(Cell(t).Sources)
                k == IF BeforeIo(t) THEN renders[t] - 1 ELSE renders[t]
            IN  /\ opened[t] \in -1..(n - 1)
                /\ k = 0 => currentSrcIx[t] = -1 /\ opened[t] = -1
                /\ (k >= 1 /\ renders[t] < MaxCount) =>
                      /\ currentSrcIx[t] = (k - 1) % n
                      /\ opened[t] = currentSrcIx[t]

\* C7 witness: the fourth render of a carousel of three sources has opened the
\* first source again.
C7_Witness ==
    \E t \in TaskIds :
        /\ Declared(t) /\ fn[t] = "drawCarousel" /\ Len(Cell(t).Sources) = 3
        /\ renders[t] = 4 /\ ~BeforeIo(t) /\ opened[t] = 0 /\ lastFn[t] = "published"


IsAliveNoRefresh(cell) == cell.CellType = "isalive" /\ cell.RefreshSecs = 0

\* C8 as claimed: when the process dies of an isalive cell without RefreshSecs, no
\* render function of that page has been invoked and no goroutine of it started.
C8_NothingStartedAtAbort ==
    fatal = "isalive refreshsecs" =>
        \A c \in DOMAIN Pages[Page1].Cells :
            renders[<<Page1, c>>] = 0 /\ ~Live(<<Page1, c>>)

\* C8 as amended: an isalive cell without RefreshSecs is never bound, rendered or
\* given a goroutine; the process dies of it in prepareCell of that very cell,
\* when neither it nor any later cell of the page has been prepared, rendered or
\* started, while every earlier cell of the page has been rendered already.
C8_AbortsAtItsOwnCell ==
    /\ \A t \in TaskIds :
        (Declared(t) /\ IsAliveNoRefresh(Cell(t))) =>
            fn[t] = "" /\ renders[t] = 0 /\ pc[t] = "none"
    /\ fatal = "isalive refreshsecs" =>
        /\ pc[Main] = "prepare" /\ IsAliveNoRefresh(Cell(<<Page1, cellIx>>))
        /\ \A c \in DOMAIN Pages[Page1].Cells :
            IF c >= cellIx
            THEN /\ fn[<<Page1, c>>] = "" /\ renders[<<Page1, c>>] = 0
                 /\ pc[<<Page1, c>>] = "none" /\ ticker[<<Page1, c>>] = "none"
            ELSE renders[<<Page1, c>>] >= 1

\* C8 witness: the process has died of the isalive cell, second on its page, and
\* the goroutine of the first cell had been started.
C8_Witness ==
    /\ fatal = "isalive refreshsecs" /\ cellIx = 2
    /\ renders[<<Page1, 1>>] >= 1 /\ Live(<<Page1, 1>>)

KnownTypes ==
    {"carousel", "datemonth", "day", "daydatemonth", "hostname", "isalive",
     "localimage", "text", "time", "urlimage"}

MissingField(cell) ==
    \/ cell.CellType \notin KnownTypes
    \/ cell.CellType \in {"localimage", "urlimage"} /\ cell.Source = ""
    \/ cell.CellType = "carousel" /\ Len(cell.Sources) = 0
    \/ cell.CellType = "text" /\ cell.Text = ""

\* C9 as claimed: the render function of a cell with an unknown type tag or a
\* missing required field is never invoked.
C9_InvalidCellNeverRendered ==
    \A t \in TaskIds : (Declared(t) /\ MissingField(Cell(t))) => renders[t] = 0

\* C9 as amended: only the type tag is checked by prepareCell.  A cell of unknown
\* type is never bound or rendered and the process dies in its prepareCell.  A
\* localimage without Source and a carousel without Sources die inside the first
\* invocation of their render function, before any publish.  A urlimage without
\* Source is rendered and every invocation skips on the failed fetch.  A text
\* cell without Text is rendered and published.
C9_OnlyTypeTagChecked ==
    /\ fatal = "unknown cell type" =>
          pc[Main] = "prepare" /\ Cell(<<Page1, cellIx>>).CellType \notin KnownTypes
    /\ \A t \in TaskIds : Declared(t) =>
        LET cell == Cell(t)
            diesInFirstRender(why) ==
                /\ renders[t] <= 1 /\ lastFn[t] \in {"none", "running"}
                /\ (renders[t] = 1 /\ ~BeforeIo(t)) => fatal = why
        IN  /\ cell.CellType \notin KnownTypes =>
                  fn[t] = "" /\ renders[t] = 0 /\ ~Live(t)
            /\ (cell.CellType = "localimage" /\ cell.Source = "") => diesInFirstRender("open")
            /\ (cell.CellType = "carousel" /\ Len(cell.Sources) = 0) =>
                  diesInFirstRender("index out of range")
            /\ (cell.CellType = "urlimage" /\ cell.Source = "") =>
                  /\ lastIo[t] \in {"none", "fetch"}
                  /\ (renders[t] >= 1 /\ ~BeforeIo(t)) => lastFn[t] = "skipped"
            /\ (cell.CellType = "text" /\ cell.Text = "" /\ renders[t] >= 1) =>
                  lastFn[t] \in {"running", "published"}

\* C9 witness: the render function of a localimage without Source was invoked
\* and the process died of the failed open.
C9_Witness ==
    \E t \in TaskIds :
        /\ Declared(t) /\ Cell(t).CellType = "localimage" /\ Cell(t).Source = ""
        /\ renders[t] = 1 /\ lastIo[t] = "open" /\ fatal = "open"

LocalPath(t) == fn[t] \in {"drawLocalImage", "drawCarousel"}

\* C10 as claimed: on the local-image path a decode failure ends the process.
C10_LocalDecodeFailureFatal ==
    \A t \in TaskIds : (LocalPath(t) /\ lastIo[t] = "decode") => fatal # ""

\* C10 as amended: on the local-image path only a failure to open the file ends
\* the process; a failure to decode it ends the invocation without a publish and
\* the process lives on, as does a failed fetch or decode on the remote path.
C10_OnlyOpenFailureFatal ==
    [][\A t \in TaskIds :
          (lastFn[t] = "running" /\ lastIo[t] = "none") =>
              /\ (LocalPath(t) /\ lastIo'[t] = "open") => fatal' = "open"
              /\ ((LocalPath(t) \/ fn[t] = "drawURLImage") /\ lastIo'[t] \in {"decode", "fetch"}) =>
                    /\ fatal' = "" /\ lastFn'[t] = "skipped"
                    /\ updateMu' = updateMu
                    /\ pc'[t] = pc[t] \/ pc'[t] = "select"]_vars

\* C10 witness: the goroutine of a local image or carousel is back in its select
\* after a render that failed to decode, and the process lives.
C10_Witness ==
    \E t \in TaskIds :
        /\ LocalPath(t) /\ lastIo[t] = "decode" /\ lastFn[t] = "skipped"
        /\ pc[t] = "select" /\ renders[t] = 2 /\ fatal = ""


\* C11: while an invocation of drawURLImage is at its fetch nobody draws on the
\* cell's rectangle; when the fetch or the decode fails the invocation returns
\* without taking updateMu and without a publish, the framebuffer and the mirror
\* stay as they were, and the process lives: main goes on in startOrExecute, a
\* goroutine goes back to its select, where the next tick calls cell.fn again.
C11_SkipStep ==
    \A t \in TaskIds :
        (fn[t] = "drawURLImage" /\ BeforeIo(t)) =>
            /\ fb'[t[2]] = fb[t[2]] /\ fbcopy'[t[2]] = fbcopy[t[2]]
            /\ lastIo'[t] \in {"fetch", "decode"} =>
                  /\ fb' = fb /\ fbcopy' = fbcopy /\ updateMu' = updateMu
                  /\ fatal' = "" /\ lastFn'[t] = "skipped"
                  /\ IF pc[t] = "io"
                     THEN pc'[t] = "select"
                     ELSE IF OneShot(Cell(t))
                          THEN pc'[Main] \in {"prepare", "sleep", "wait"}
                          ELSE pc'[Main] = "spawn"

C11_RetriedOnTick ==
    \A t \in TaskIds :
        (fn[t] = "drawURLImage" /\ lastFn[t] = "skipped" /\ Live(t)) =>
            /\ pc[t] = "select"
            /\ (ticker[t] = "full" /\ fatal = "") => ENABLED TaskTick(t)

C11_FailedFetchSkips == []C11_RetriedOnTick /\ [][C11_SkipStep]_vars

\* C11 witness: the second render of a urlimage cell, by its goroutine, failed to
\* fetch; the rectangle still shows the image of the first render, the goroutine
\* is in its select and the next tick is in ticker.C.
C11_Witness ==
    \E t \in TaskIds :
        /\ fn[t] = "drawURLImage" /\ renders[t] = 2 /\ lastIo[t] = "fetch"
        /\ lastFn[t] = "skipped" /\ pc[t] = "select" /\ ticker[t] = "full"
        /\ fb[t[2]] = Pixels("image", 0) /\ fatal = ""


\* a cell whose render function does no I/O, so that it cannot hang itself
NoIo(t) == Declared(t) /\ Cell(t) \in RotDecls

\* C12 as claimed: whatever invocation never returns, every other cell of the
\* page is prepared and rendered (unless the process dies first).
C12_OthersAlwaysStarted ==
    \A u \in TaskIds :
        (NoIo(u) /\ u[1] = 1) => <>(renders[u] >= 1 \/ fatal # "")

\* C12 as amended: an invocation that hangs does so in its I/O, where it holds
\* neither updateMu nor fbcopyMu, so a hung invocation of a goroutine stalls its
\* own cell only: the goroutine of any other cell that does no I/O, once started
\* and never stopped, goes on rendering tick after tick.  But the first
\* invocation of a cell runs in main: a cell that cannot hang itself is
\* prepared and rendered unless the process dies or main stays for ever in the
\* first invocation of an earlier cell of the page.
C12_HungIoHoldsNoLock ==
    \A p \in Procs : pc[p] \in {"io", "close"} => (updateMu # p /\ fbcopyMu.w # p)

C12_OnlyFirstRenderBlocks ==
    /\ []C12_HungIoHoldsNoLock
    /\ \A u \in TaskIds :
        /\ (<>[](NoIo(u) /\ Live(u) /\ pc[u] # "stopped" /\ fatal = ""))
              => []<><<TaskTick(u)>>_vars
        /\ (NoIo(u) /\ u[1] = 1) =>
              \/ <>(renders[u] >= 1 \/ fatal # "")
              \/ <>[](pc[Main] = "io" /\ Page1 = 1 /\ cellIx < u[2])

\* C12 witness: a goroutine is in the fetch of its urlimage cell while the
\* goroutine of the other cell of the page, started after it, is in its second
\* render.
C12_Witness ==
    \E t, u \in TaskIds :
        /\ t # u /\ t[1] = u[1] /\ fn[t] = "drawURLImage" /\ pc[t] = "io"
        /\ NoIo(u) /\ pc[u] = "fbdraw" /\ renders[u] = 2


\* C13: with mirroring enabled (fbcopy != nil), once main has blanked the
\* surface for the first time, fbcopy shows what fb shows whenever no process is
\* inside render(); while a process is inside render() the two differ at most in
\* the rectangles that call covers.
C13_MirrorEqualsSurface ==
    (httpFlag /\ currentPageIx >= 0) =>
        /\ (\A p \in Procs : ~InRender(p)) => fbcopy = fb
        /\ \A p \in Procs : (InRender(p) /\ ~(p = Main /\ cellIx = 0)) =>
              \A r \in Rects : r # RCell(p)[2] => fbcopy[r] = fb[r]

\* C13 witness: mirroring is enabled, nobody is inside render(), and the first
\* rectangle shows, on both surfaces, the second image of a carousel.
C13_Witness ==
    /\ httpFlag /\ \A p \in Procs : ~InRender(p)
    /\ fb[1] = Pixels("image", 1) /\ fbcopy[1] = Pixels("image", 1)


\* C14: while a request is inside RLock..RUnlock of fbcopyHandler (the whole of
\* enc.Encode) no process holds fbcopyMu for writing or is drawing on fbcopy; a
\* process holds fbcopyMu for writing exactly while it is at the draw.Draw on
\* fbcopy inside render(); and as many requests as arrive can be inside at once.
C14_ReadersExcludeWriter ==
    /\ fbcopyMu.r \in 0..Cardinality(Clients)
    /\ fbcopyMu.r > 0 =>
          /\ httpFlag /\ fbcopyMu.w = Nobody
          /\ \A p \in Procs : pc[p] # "fbcopying"
    /\ \A p \in Procs : fbcopyMu.w = p <=> pc[p] = "fbcopying"
    /\ fbcopyMu.w \in Procs \cup {Nobody}

\* C14 witness: two requests are encoding fbcopy at once while a goroutine,
\* inside render(), waits in fbcopyMu.Lock().
C14_Witness ==
    /\ fbcopyMu.r = 2 /\ fbcopyMu.w = Nobody
    /\ \E t \in TaskIds : pc[t] = "fbcopy" /\ updateMu = t


\* C15: config.currentPageIx is -1 only until main's loop is entered for the
\* first time and in 0..len(config.Pages)-1 ever after; it changes only at the
\* top of main's loop, from -1 to 0 the first time and from i to (i+1) mod
\* len(config.Pages) every other time, so pages are activated in the order of
\* the configuration, the first page after the last.
C15_IndexInRange ==
    /\ currentPageIx \in -1..(Len(Pages) - 1)
    /\ currentPageIx = -1 => (pc[Main] = "loop" /\ \A r \in Rects : fb[r] = Device)

C15_NextIsSuccessor ==
    /\ currentPageIx' # currentPageIx => pc[Main] = "loop"
    /\ (pc[Main] = "loop" /\ pc'[Main] # "loop") =>
          /\ currentPageIx' = (currentPageIx + 1) % Len(Pages)
          /\ currentPageIx = -1 => currentPageIx' = 0

C15_PagesInOrder == []C15_IndexInRange /\ [][C15_NextIsSuccessor]_vars

\* C15 witness: with two pages, main is blanking the surface for the first page
\* again, after the second page was activated and its cells were bound.
C15_Witness ==
    /\ Len(Pages) = 2 /\ currentPageIx = 0 /\ pc[Main] = "fbdraw" /\ cellIx = 0
    /\ fn[<<2, 1>>] # "" /\ fn[<<1, 1>>] # ""


\* C16: while an invocation of drawLocalImage or drawCarousel is at its os.Open
\* nobody draws on the cell's rectangle; when os.Open fails the process dies in
\* that very step, with fb, fbcopy and updateMu as they were; and nothing is
\* drawn once the process has died.
C16_OpenFailureStep ==
    /\ \A t \in TaskIds :
        (LocalPath(t) /\ BeforeIo(t)) =>
            /\ fb'[t[2]] = fb[t[2]] /\ fbcopy'[t[2]] = fbcopy[t[2]]
            /\ lastIo'[t] = "open" =>
                  /\ fatal' = "open" /\ lastFn'[t] = "running"
                  /\ fb' = fb /\ fbcopy' = fbcopy /\ updateMu' = updateMu
    /\ fatal # "" => (fb' = fb /\ fbcopy' = fbcopy)

C16_DeadOfOpen ==
    fatal = "open" <=>
        \E t \in TaskIds : LocalPath(t) /\ lastIo[t] = "open" /\ lastFn[t] = "running"

C16_OpenFailureCommitsNothing == []C16_DeadOfOpen /\ [][C16_OpenFailureStep]_vars

\* C16 witness: the process died when the goroutine of a carousel could not open
\* its second source; the rectangle shows the first source, drawn by the render
\* before.
C16_Witness ==
    \E t \in TaskIds :
        /\ fn[t] = "drawCarousel" /\ pc[t] = "io" /\ renders[t] = 2
        /\ lastIo[t] = "open" /\ fatal = "open" /\ currentSrcIx[t] = 1
        /\ fb[t[2]] = Pixels("image", 0)


\* the connection net.DialTimeout returned for cell t is open
ConnOpen(t) == \E p \in Procs : RCell(p) = t /\ pc[p] = "close"

\* C17: an invocation of drawIsAlive whose dial succeeded closes the connection
\* before it asks for updateMu and publishes green with the label; one whose dial
\* failed or timed out publishes red with the label, and the process and the
\* goroutine live on: after every publish the rectangle is green exactly when
\* the dial of that invocation succeeded, and red otherwise.
C17_Published ==
    \A t \in TaskIds :
        fn[t] = "drawIsAlive" =>
            /\ lastFn[t] = "published" =>
                  /\ lastIo[t] \in {"ok", "dial"}
                  /\ fb[t[2]] = IF lastIo[t] = "ok" THEN Pixels("green+label", -1)
                                                  ELSE Pixels("red+label", -1)
                  /\ Live(t) => pc[t] = "select"
            /\ ConnOpen(t) =>
                  /\ lastIo[t] = "ok" /\ lastFn[t] = "running"
                  /\ \A p \in Procs : RCell(p) = t => (updateMu # p /\ ~InRender(p))

C17_ProbeStep ==
    \A t \in TaskIds :
        (fn[t] = "drawIsAlive" /\ BeforeIo(t) /\ lastIo'[t] # "none") =>
            /\ fatal' = "" /\ lastFn'[t] = "running"
            /\ lastIo'[t] = "ok" => ConnOpen(t)'
            /\ lastIo'[t] = "dial" =>
                  (~ConnOpen(t)' /\ \E p \in Procs : RCell(p) = t /\ pc'[p] = "lock")

C17_GreenIffConnected == []C17_Published /\ [][C17_ProbeStep]_vars

\* C17 witness: the second probe of an isalive cell, by its goroutine, failed;
\* the rectangle is red and the goroutine is back in its select.
C17_Witness ==
    \E t \in TaskIds :
        /\ fn[t] = "drawIsAlive" /\ renders[t] = 2 /\ lastIo[t] = "dial"
        /\ lastFn[t] = "published" /\ pc[t] = "select" /\ fatal = ""
        /\ fb[t[2]] = Pixels("red+label", -1)


\* C18 as claimed: every process inside render() holds updateMu.
C18_PublisherHoldsLock ==
    \A p \in Procs : InRender(p) => updateMu = p

\* C18 as amended: a process inside render() for a cell, main on a first render
\* or a goroutine, holds updateMu; main inside render() for the blanker holds no
\* lock: then nobody holds updateMu and no goroutine is alive.
C18_CellPublisherHoldsLock ==
    \A p \in Procs :
        InRender(p) =>
            IF p = Main /\ cellIx = 0
            THEN updateMu = Nobody /\ \A t \in TaskIds : ~Live(t)
            ELSE updateMu = p

\* C18 witness: main is inside render() for the blanker of a later activation,
\* without updateMu, after the goroutines of the page before have returned.
C18_Witness ==
    /\ InRender(Main) /\ cellIx = 0 /\ updateMu = Nobody
    /\ \E t \in TaskIds : pc[t] = "exited"


\* process p is inside cell.fn
Running(p) ==
    /\ pc[p] \in {"io", "close", "lock", "fbdraw", "fbcopy", "fbcopying"}
    /\ ~(p = Main /\ cellIx = 0)

\* C19: at most one process is inside the render function of a cell: while main
\* is in the first invocation the cell has no goroutine yet, the goroutine is
\* launched only when that invocation has returned, and it takes a tick, and
\* with it calls cell.fn, only from its select, when its invocation before has
\* returned.
C19_OneInvocation ==
    \A t \in TaskIds :
        /\ ~(Running(t) /\ Running(Main) /\ RCell(Main) = t)
        /\ (Running(Main) /\ RCell(Main) = t) => ~Live(t)
        /\ lastFn[t] = "running" <=> (Running(t) \/ (Running(Main) /\ RCell(Main) = t))

C19_StartsAfterReturn ==
    \A t \in TaskIds :
        /\ (~Live(t) /\ Live(t)') => lastFn[t] \in {"published", "skipped"}
        /\ (ticker[t] = "full" /\ ticker'[t] = "empty") =>
              /\ pc[t] = "select" /\ lastFn[t] \in {"published", "skipped"}
              /\ Running(t)' /\ lastFn'[t] = "running"
        /\ (lastFn[t] # "running" /\ lastFn'[t] = "running") =>
              \/ pc[Main] = "start" /\ RCell(Main) = t
              \/ ticker[t] = "full" /\ ticker'[t] = "empty"

C19_SameCellNeverOverlaps == []C19_OneInvocation /\ [][C19_StartsAfterReturn]_vars

\* C19 witness: the goroutines of two cells of a page are inside their render
\* functions at once, one at its I/O and the other inside render().
C19_Witness ==
    \E t, u \in TaskIds :
        /\ t # u /\ pc[t] = "io" /\ pc[u] = "fbdraw"
        /\ renders[t] = 2 /\ renders[u] = 2


\* the goroutine of cell t has taken its stop
Stopped(t) == pc[t] \in {"stopped", "exited"}

\* C20: a stop is sent by main, in the order of stoppers, and is taken only by a
\* goroutine blocked in its select, never by one inside cell.fn; a goroutine that
\* has taken its stop calls cell.fn no more, calls wg.Done() once, the only way
\* the WaitGroup counter goes down, and returns; no goroutine is in stoppers
\* twice, the goroutines before main's position in stoppers have taken their
\* stop and those from it on have not, so that none is sent a second stop, and
\* when main goes on to wg.Wait() on a page that rotates every goroutine of
\* stoppers has taken exactly one.
C20_StopStep ==
    \A t \in TaskIds :
        /\ (~Stopped(t) /\ Stopped(t)') =>
              /\ pc[t] = "select" /\ pc'[t] = "stopped" /\ lastFn[t] # "running"
              /\ pc[Main] = "stop" /\ stoppers[stopIx] = t
        /\ Running(t) => ~Stopped(t)'
        /\ pc[t] = "stopped" =>
              /\ pc'[t] \in {"stopped", "exited"}
              /\ pc'[t] = "exited" => wg' = wg - 1
        /\ pc[t] = "exited" =>
              \/ pc'[t] = "exited"
              \/ pc[Main] = "spawn" /\ RCell(Main) = t /\ pc'[t] = "select"
        /\ Stopped(t) => ~Running(t)'
        /\ wg' < wg => \E u \in TaskIds : pc[u] = "stopped" /\ pc'[u] = "exited"

C20_EachSignalledOnce ==
    /\ \A i, j \in DOMAIN stoppers : stoppers[i] = stoppers[j] => i = j
    /\ \A t \in TaskIds : Stopped(t) => ~Running(t)
    /\ pc[Main] = "stop" =>
          /\ stopIx \in DOMAIN stoppers
          /\ \A i \in DOMAIN stoppers : Stopped(stoppers[i]) <=> i < stopIx
    /\ (pc[Main] = "wait" /\ Rotates(Page1)) =>
          \A i \in DOMAIN stoppers : Stopped(stoppers[i])
    /\ pc[Main] \notin {"stop", "wait", "loop", "fbdraw", "fbcopy", "fbcopying", "font"} =>
          \A i \in DOMAIN stoppers : ~Stopped(stoppers[i])

C20_CooperativeCancel == []C20_EachSignalledOnce /\ [][C20_StopStep]_vars

\* C20 witness: main has stopped the first goroutine of the page, which has
\* returned, and is blocked sending the stop of the second, which is inside
\* render() for a tick.
C20_Witness ==
    /\ pc[Main] = "stop" /\ stopIx = 2
    /\ pc[stoppers[1]] = "exited" /\ pc[stoppers[2]] = "fbdraw"


\* C21: on a page that rotates (several pages, DurationMins > 0), with every
\* call of cell.fn returning, main is never blocked for ever in the sleep, in
\* a send on a stop channel or in wg.Wait(): from the sleep on page i it gets to
\* the top of its loop and blanks the surface for page (i+1) mod len, and by then
\* every goroutine of page i has taken its stop, called wg.Done() and returned.
C21_DrainCompletes ==
    \A i \in 0..(MaxPages - 1) :
        (pc[Main] = "sleep" /\ currentPageIx = i)
            ~> ( /\ pc[Main] = "fbdraw" /\ cellIx = 0
                 /\ currentPageIx = (i + 1) % Len(Pages)
                 /\ wg = 0 /\ stoppers = <<>>
                 /\ \A t \in TaskIds : ~Live(t) )

\* C21 witness: main is blanking the surface for the next page after a drain of
\* two goroutines, each of which had rendered on a tick.
C21_Witness ==
    /\ pc[Main] = "fbdraw" /\ cellIx = 0 /\ wg = 0 /\ stoppers = <<>>
    /\ Cardinality({t \in TaskIds : pc[t] = "exited"}) >= 2


\* width and height of an image.Rectangle
Dx(r) == r.Max.X - r.Min.X
Dy(r) == r.Max.Y - r.Min.Y

\* C22: for a page with Rows and Cols set, a prepared cell has cellWidth =
\* Xres div Cols and cellHeight = Yres div Rows, spans of 1 where none was
\* configured, its rectangle at ((Col-1)*cellWidth, (Row-1)*cellHeight) with
\* size (cellWidth*Colspan, cellHeight*Rowspan), and a picture of that very size
\* with its origin at (0, 0).
C22_CellGeometry ==
    geometry.at = "prepared" =>
        LET cw == geometry.cellWidth
            ch == geometry.cellHeight
            cs == IF layout.Colspan = 0 THEN 1 ELSE layout.Colspan
            rs == IF layout.Rowspan = 0 THEN 1 ELSE layout.Rowspan
        IN  /\ layout.Cols > 0 /\ layout.Rows > 0
            /\ cw * layout.Cols <= layout.Xres /\ layout.Xres < (cw + 1) * layout.Cols
            /\ ch * layout.Rows <= layout.Yres /\ layout.Yres < (ch + 1) * layout.Rows
            /\ geometry.Colspan = cs /\ geometry.Rowspan = rs
            /\ geometry.positionRect.Min = Point((layout.Col - 1) * cw, (layout.Row - 1) * ch)
            /\ Dx(geometry.positionRect) = cw * cs /\ Dy(geometry.positionRect) = ch * rs
            /\ geometry.picture.Min = Point(0, 0)
            /\ Dx(geometry.picture) = Dx(geometry.positionRect)
            /\ Dy(geometry.picture) = Dy(geometry.positionRect)

\* C22 witness: on a surface 7 pixels wide a cell without Colspan, in the second
\* of three columns, is prepared 2 pixels wide at x = 2.
C22_Witness ==
    /\ geometry.at = "prepared" /\ layout.Xres = 7 /\ layout.Cols = 3
    /\ layout.Col = 2 /\ layout.Colspan = 0
    /\ geometry.cellWidth = 2 /\ geometry.positionRect.Min.X = 2
    /\ Dx(geometry.positionRect) = 2


\* the recurring cells of the active page, in the order of the configuration
Recurring(c) == c.RefreshSecs # 0
RecurringOf(p) ==
    LET idx == [i \in 1..NumCells(p) |-> <<p, i>>]
    IN  SelectSeq(idx, LAMBDA t : Recurring(Cell(t)))

\* main has left the cell loop: it sleeps, signals the goroutines or waits for them
PastCells == pc[Main] \in {"sleep", "stop", "wait"}
\* main is about to send the first stop signal of a drain
StartsSignalling == pc[Main] = "sleep" \/ (pc[Main] = "stop" /\ stopIx = 1)

\* C23: the WaitGroup's counter is never negative; once main is past the cell
\* loop (before, while and after signalling, and in wg.Wait) the counter is the
\* number of live goroutines and stoppers is the list of the active page's
\* recurring cells, each once and none of another activation; every live
\* goroutine has its channel in it, and when signalling starts every channel
\* in it belongs to a live goroutine.
C23_BarrierMatchesTasks ==
    /\ wg >= 0
    /\ PastCells =>
          /\ wg = Cardinality({t \in TaskIds : Live(t)})
          /\ stoppers = RecurringOf(Page1)
          /\ \A t \in TaskIds :
                Live(t) => \E i \in 1..Len(stoppers) :
                             /\ stoppers[i] = t
                             /\ \A j \in 1..Len(stoppers) : stoppers[j] = t => j = i
    /\ StartsSignalling => \A i \in 1..Len(stoppers) : Live(stoppers[i])
    /\ pc[Main] \in {"loop", "fbdraw", "fbcopy", "fbcopying", "font"} /\ cellIx = 0
          => wg = 0 /\ stoppers = <<>>

\* C23 witness: on the second activation of the rotation main signals the two
\* goroutines of the page it shows, and a goroutine of the page before has ended.
C23_Witness ==
    /\ pc[Main] = "stop" /\ stopIx = 1 /\ wg = 2 /\ Len(stoppers) = 2
    /\ \E t \in TaskIds : pc[t] = "exited"


\* C24 as claimed: whoever asks for or holds fbcopyMu as a writer holds updateMu.
C24_WriterHoldsSurfaceLock ==
    \A p \in Procs : pc[p] \in {"fbcopy", "fbcopying"} => updateMu = p

\* a process that holds a lock can take its next step, or waits for fbcopyMu
\* behind requests that can leave or a writer that can
CanGoOn(p) ==
    \/ ENABLED FbDraw(p)
    \/ ENABLED FbCopyLock(p)
    \/ ENABLED FbCopy(p)
    \/ pc[p] = "fbcopy" /\ ( \/ ENABLED RUnlock
                             \/ fbcopyMu.w \in Procs /\ ENABLED FbCopy(fbcopyMu.w) )

\* C24 as amended: a process that asks for or holds fbcopyMu as a writer holds
\* updateMu, except main inside render() for the blanker, which holds nothing
\* while nobody else holds updateMu; a request holds fbcopyMu for reading only.
\* The holder of updateMu is inside render(), never at I/O, a channel or
\* wg.Wait, and the writer of fbcopyMu is at draw.Draw.  So whoever waits for a
\* lock waits for a process that can go on, and as long as the program has
\* not panicked main or a goroutine can take a step, or a request can leave.
C24_NoLockDeadlock ==
    /\ \A p \in Procs :
          pc[p] \in {"fbcopy", "fbcopying"} =>
              \/ updateMu = p
              \/ p = Main /\ cellIx = 0 /\ updateMu = Nobody
    /\ \A p \in Procs : updateMu = p => InRender(p) /\ ~(p = Main /\ cellIx = 0)
    /\ updateMu \in Procs \cup {Nobody}
    /\ \A p \in Procs : fbcopyMu.w = p => pc[p] = "fbcopying"
    /\ fbcopyMu.w # Nobody => fbcopyMu.r = 0
    /\ fatal = "" =>
          /\ \A p \in Procs : pc[p] = "lock" /\ updateMu # Nobody => CanGoOn(updateMu)
          /\ \A p \in Procs : pc[p] = "fbcopy" => CanGoOn(p)
          /\ ~RLockFree => \E p \in Procs : pc[p] \in {"fbcopy", "fbcopying"} /\ CanGoOn(p)
          /\ ENABLED Next \/ ENABLED RUnlock

\* C24 witness: main waits in updateMu.Lock() for a goroutine, which holds
\* updateMu and waits in fbcopyMu.Lock() for two requests to finish encoding.
C24_Witness ==
    /\ pc[Main] = "lock" /\ fbcopyMu.r = 2
    /\ \E t \in TaskIds : updateMu = t /\ pc[t] = "fbcopy"


\* main is inside render(image.Rect(0, 0, fb.Xres, fb.Yres), blanker)
Blanking == cellIx = 0 /\ InRender(Main)

\* everything the draw function of cell t can pass to render
ImagesOf(t) ==
    CASE fn[t] = "drawText"     -> {Pixels("text", -1)}
      [] fn[t] = "drawTime"     -> {Pixels("time", -1)}
      [] fn[t] = "drawIsAlive"  -> {Pixels("green+label", -1), Pixels("red+label", -1)}
      [] fn[t] = "drawCarousel" -> {Pixels("image", i) : i \in 0..(Len(Cell(t).Sources) - 1)}
      [] OTHER                  -> {Pixels("image", 0)}

\* rectangle r shows px, drawn by the active page's cell there since it was prepared
OwnPixels(r, px) ==
    /\ r <= NumCells(Page1)
    /\ renders[<<Page1, r>>] >= 1
    /\ px \in ImagesOf(<<Page1, r>>)

\* C25: while main blanks the surface at an activation no goroutine is alive
\* and no cell of the page has been prepared or rendered; every live goroutine
\* belongs to the active page; and from the moment the blanker is on fb (on
\* fbcopy, with -http) every rectangle is black or shows what the active page's
\* own cell has drawn there in this activation.
C25_BlankedAtActivation ==
    currentPageIx >= 0 =>
        /\ Blanking => \A t \in TaskIds : ~Live(t) /\ renders[t] = 0
        /\ \A t \in TaskIds : Live(t) => t[1] = Page1
        /\ ~(cellIx = 0 /\ pc[Main] = "fbdraw") =>
              \A r \in Rects : fb[r] # Black => OwnPixels(r, fb[r])
        /\ (httpFlag /\ ~Blanking) =>
              \A r \in Rects : fbcopy[r] # Black => OwnPixels(r, fbcopy[r])

\* C25 witness: the first page showed the time in its second rectangle, and its
\* goroutine has returned; the second page has drawn its first cell and not yet
\* its second, and the second rectangle is black.
C25_Witness ==
    /\ currentPageIx = 1 /\ fn[<<1, 2>>] = "drawTime" /\ pc[<<1, 2>>] = "exited"
    /\ lastFn[<<2, 1>>] = "published" /\ renders[<<2, 2>>] = 0
    /\ fb[1] # Black /\ fb[2] = Black


\* the cells whose time.Ticker has been created and never stopped
ActiveTimers == {t \in TaskIds : ticker[t] # "none"}

\* C26 as claimed: a ticker is active only while the goroutine that reads it is
\* alive, so there are never more active tickers than live goroutines.
C26_TimersReleased ==
    /\ \A t \in ActiveTimers : Live(t)
    /\ Cardinality(ActiveTimers) <= Cardinality({t \in TaskIds : Live(t)})

=============================================================================
